---- MODULE Spec2Model ----
(***************************************************************************)
(* stash-logger (src/src/index.js, the StashLogger class of lines 32-267). *)
(*                                                                         *)
(* The model follows the JavaScript as it is written, exceptions included: *)
(* a call that throws leaves the logger's fields as they were and records  *)
(* the throw in `last`.  Every logger shares ONE options object, because   *)
(* the constructor assigns into loggerDefaults and keeps the result.       *)
(*                                                                         *)
(* Operations are the public methods (<level>, <level>Immediately, attach, *)
(* detach, extend), the timer callback, and the underscore methods called  *)
(* directly on a logger, the way the repository's tests drive the class    *)
(* (they override _makeRequest and set _writePending from outside).        *)
(***************************************************************************)
EXTENDS Integers, Sequences, FiniteSets

\* ------------------------------------------------------------ bounds
MaxLoggers == 3      \* loggers in the tree (root, child, grandchild)
MaxLogs == 2         \* records built during a run
MaxRequests == 1     \* immediate requests made during a run
MaxTimers == 2       \* intervals created by attach()
MaxClock == 1        \* clock readings after the start, ClockStep apart
ClockStep == 1000    \* milliseconds between two clock readings
MaxAttempts == 4     \* _sendPayload is not called from outside past this count
MaxBuffered == 3     \* records in a buffer _nextWrite is called on

\* ------------------------------------------------- program constants
bufferMaxPayload == 15360
bufferWriteInterval == 1000
bufferMaxWriteRetries == 3

logLevels == <<"log", "info", "warn", "error">>
LevelNames == {logLevels[i] : i \in 1..Len(logLevels)}

Root == 1
NoParent == 0
NoTimer == 0

\* this._logBuffer of a new logger.  No line of src/ sets it; the tests read
\* it through buffer() and find it empty on a new logger.
EmptyBuffer == <<>>

\* Serialized sizes a built record may have, in bytes.
RecordSizes == {5000, 20000}
\* bufferMaxWriteRetries values a logger is constructed with.
RetryChoices == 1..bufferMaxWriteRetries
\* bufferMaxPayload values a logger is constructed with, in bytes.
PayloadBounds == {12000, bufferMaxPayload}
\* Level and size of the records the underscore methods are called with.
DirectLevel == "error"
DirectSize == 5000

VARIABLES
    options,            \* the one options object (loggerDefaults itself)
    parent,             \* parent[l]: this.parent of logger l, NoParent for null
    logBuffer,          \* logBuffer[l]: this._logBuffer of logger l
    requests,           \* requests[l]: Transport calls made by logger l
    writeAttempts,      \* root._writeAttempts (undefined counts as 0, line 204)
    writePending,       \* root._writePending
    lastWrittenAt,      \* root._lastWrittenAt: [set, at]
    now,                \* Date.now()
    timers,             \* handles of the intervals that are running
    logBufferInterval,  \* root._logBufferInterval, NoTimer for unset
    inflight,           \* the pending superagent request of _sendPayload
    chain,              \* history of the current _sendPayload call
    last,               \* outcome of the last call made on a logger
    nextId,             \* id of the next record built
    logLevelGiven,      \* logLevelGiven[l]: the logLevel logger l was made with
    errorHooks          \* listeners on process 'uncaughtException' (line 60)

vars == <<options, parent, logBuffer, requests, writeAttempts, writePending,
          lastWrittenAt, now, timers, logBufferInterval, inflight, chain,
          last, nextId, logLevelGiven, errorHooks>>

\* ----------------------------------------------------------- helpers
\* Array.prototype.indexOf: zero-based, -1 when absent.
IndexOf(seq, x) ==
    IF \E i \in 1..Len(seq) : seq[i] = x
    THEN (CHOOSE i \in 1..Len(seq) :
              seq[i] = x /\ \A j \in 1..(i - 1) : seq[j] # x) - 1
    ELSE 0 - 1

Loggers == 1..Len(parent)

RECURSIVE RootOf(_)
\* The logger a call on l ends at after the `if (this.parent) return
\* this.parent._log...` delegation of _logEventually / _logImmediately.
RootOf(l) == IF parent[l] = NoParent THEN l ELSE RootOf(parent[l])

RECURSIVE SumSizes(_)
SumSizes(logs) ==
    IF logs = <<>> THEN 0 ELSE Head(logs).size + SumSizes(Tail(logs))

\* _package: {app: {appId}, traces: logs}, an object (no packagePayload hook).
_package(logs) == [traces |-> logs]

\* Bytes of the request body superagent sends for a payload:
\* {"app":{"appId":null},"traces":[...]} with the records comma separated.
SerializedLength(payload) ==
    35 + SumSizes(payload.traces)
       + (IF Len(payload.traces) > 1 THEN Len(payload.traces) - 1 ELSE 0)

\* options.bufferMaxPayload is a fraction n/d: line 214 multiplies it by 0.8.
ReducePayload(b) == [n |-> 4 * b.n, d |-> 5 * b.d]
FitsBound(len, b) == len * b.d <= b.n

\* _isImportant
_isImportant(level) ==
    IndexOf(logLevels, level) >= IndexOf(logLevels, options.logLevel)

\* _buildLog: one record; its serialized size is an input.
_buildLog(level, size) == [id |-> nextId, level |-> level, size |-> size]

Outcome(op, l, level, accepted, threw, appended, calls, head) ==
    [op |-> op, logger |-> l, level |-> level, accepted |-> accepted,
     threw |-> threw, appended |-> appended, calls |-> calls, head |-> head]

\* chain: the _sendPayload call under way or last made.  state is "none",
\* "inflight", "fulfilled" (line 208), "fulfilledWithError" (line 218: the
\* promise resolves with the error as its value) or "hung" (never settled);
\* tries counts its _makeRequest calls, sent and responses list their payloads
\* and the statuses answered; scheduled and remainingLogs are the `write` of
\* the _scheduleLogWrite call that started it, if one did; bound is
\* options.bufferMaxPayload as it was when the call was made.
NoChain ==
    [state |-> "none", tries |-> 0, sent |-> <<>>, responses |-> <<>>,
     scheduled |-> FALSE, remainingLogs |-> <<>>,
     bound |-> [n |-> bufferMaxPayload, d |-> 1]]
NoRequest == [active |-> FALSE, payload |-> _package(<<>>)]

HeadId(buf) == IF buf = <<>> THEN 0 ELSE Head(buf).id

\* ---------------------------------------------------------------- Init
\* new StashLogger(options): the root, not attached.
Constructed ==
    /\ parent = <<NoParent>>
    /\ logBuffer = <<EmptyBuffer>>
    /\ requests = <<0>>
    /\ writeAttempts = 0
    /\ writePending = FALSE
    /\ lastWrittenAt = [set |-> FALSE, at |-> 0]
    /\ now = 0
    /\ timers = {}
    /\ logBufferInterval = NoTimer
    /\ inflight = NoRequest
    /\ chain = NoChain
    /\ last = Outcome("new", Root, "none", FALSE, FALSE, 0, 0, 0)
    /\ nextId = 1
    /\ logLevelGiven = <<options.logLevel>>
    /\ errorHooks = 0

\* new StashLogger({logLevel}): every other option at its default.
Init ==
    /\ options \in [logLevel : LevelNames,
                    bufferMaxPayload : {[n |-> bufferMaxPayload, d |-> 1]},
                    bufferMaxWriteRetries : {bufferMaxWriteRetries}]
    /\ Constructed

\* new StashLogger({bufferMaxWriteRetries}): every other option at its default.
InitDelivery ==
    /\ options \in [logLevel : {"error"},
                    bufferMaxPayload : {[n |-> bufferMaxPayload, d |-> 1]},
                    bufferMaxWriteRetries : RetryChoices]
    /\ Constructed

\* The buffers of up to MaxBuffered records that _logEventually calls build
\* on a new root logger: ids in call order, every size of RecordSizes.
BuiltBuffers ==
    UNION {{[i \in 1..n |-> [id |-> i, level |-> DirectLevel, size |-> f[i]]] :
                f \in [1..n -> RecordSizes]} : n \in 0..MaxBuffered}

\* new StashLogger({bufferMaxPayload}) after the _logEventually calls that
\* built one of BuiltBuffers, no write made yet.
InitBuilder ==
    /\ options \in [logLevel : {DirectLevel},
                    bufferMaxPayload : {[n |-> b, d |-> 1] : b \in PayloadBounds},
                    bufferMaxWriteRetries : {bufferMaxWriteRetries}]
    /\ parent = <<NoParent>>
    /\ \E buf \in BuiltBuffers :
           /\ logBuffer = <<buf>>
           /\ nextId = Len(buf) + 1
           /\ last = IF buf = <<>>
                     THEN Outcome("new", Root, "none", FALSE, FALSE, 0, 0, 0)
                     ELSE Outcome("_logEventually", Root, DirectLevel, TRUE,
                                  FALSE, 1, 0, 0)
    /\ requests = <<0>>
    /\ writeAttempts = 0
    /\ writePending = FALSE
    /\ lastWrittenAt = [set |-> FALSE, at |-> 0]
    /\ now = 0
    /\ timers = {}
    /\ logBufferInterval = NoTimer
    /\ inflight = NoRequest
    /\ chain = NoChain
    /\ logLevelGiven = <<options.logLevel>>
    /\ errorHooks = 0

\* Everything a call that throws, or returns without effect, leaves alone.
Untouched ==
    UNCHANGED <<options, parent, logBuffer, requests, writeAttempts,
                writePending, lastWrittenAt, now, timers, logBufferInterval,
                inflight, chain, nextId,
                logLevelGiven, errorHooks>>

AdvanceTime ==
    /\ now < MaxClock * ClockStep
    /\ now' = now + ClockStep
    /\ UNCHANGED <<options, parent, logBuffer, requests, writeAttempts,
                   writePending, lastWrittenAt, timers, logBufferInterval,
                   inflight, chain, last, nextId,
                   logLevelGiven, errorHooks>>

\* ------------------------------------------------------------- logging
\* _bufferLogs: push every log on this._logBuffer.
_bufferLogs(r, logs) == [logBuffer EXCEPT ![r] = @ \o logs]

\* _sendLogs is called at line 144 and defined nowhere in src/: one Transport
\* call (_makeRequest) by the logger it is called on, whatever _writePending is.
_sendLogs(r, payload) == [requests EXCEPT ![r] = @ + 1]

\* _logEventually called on logger l with one message: delegation up to the
\* root, which builds the record and buffers it.
_logEventually(l, level, size, op) ==
    /\ nextId <= MaxLogs
    /\ logBuffer' = _bufferLogs(RootOf(l), <<_buildLog(level, size)>>)
    /\ nextId' = nextId + 1
    /\ last' = Outcome(op, l, level, TRUE, FALSE, 1, 0, 0)
    /\ UNCHANGED <<options, parent, requests, writeAttempts, writePending,
                   lastWrittenAt, now, timers, logBufferInterval, inflight,
                   chain,
                   logLevelGiven, errorHooks>>

\* _logImmediately called on logger l with one message: delegation up to the
\* root, which builds the record and sends it at once.
_logImmediately(l, level, size, op) ==
    /\ requests[RootOf(l)] < MaxRequests
    /\ requests' = _sendLogs(RootOf(l), _package(<<_buildLog(level, size)>>))
    /\ last' = Outcome(op, l, level, TRUE, FALSE, 0, 1, 0)
    /\ UNCHANGED <<options, parent, logBuffer, writeAttempts, writePending,
                   lastWrittenAt, now, timers, logBufferInterval, inflight,
                   chain, nextId,
                   logLevelGiven, errorHooks>>

\* Line 110, `const args = Array.prototype.slice.call(args, 0);`, declares a
\* block-scoped `args` and reads that same binding in its own initialiser: the
\* statement throws (a ReferenceError natively; a TypeError from slice once
\* Babel has renamed both occurrences to one uninitialised variable).
ArgsInitialiserThrows == TRUE

\* _handleLog
_handleLog(l, level, immediate, size, op) ==
    IF ~_isImportant(level)
    THEN /\ last' = Outcome(op, l, level, FALSE, FALSE, 0, 0, 0)
         /\ Untouched
    ELSE IF ArgsInitialiserThrows
    THEN /\ last' = Outcome(op, l, level, TRUE, TRUE, 0, 0, 0)
         /\ Untouched
    ELSE IF immediate
    THEN _logImmediately(l, level, size, op)
    ELSE _logEventually(l, level, size, op)

\* logger[level](message)
Level(l, level, size) == _handleLog(l, level, FALSE, size, "level")

\* logger[level + 'Immediately'](message)
LevelImmediately(l, level, size) ==
    _handleLog(l, level, TRUE, size, "levelImmediately")

\* logger._logEventually(level, [message]) called from outside.
LogEventuallyCall(l, level, size) ==
    _logEventually(l, level, size, "_logEventually")

\* logger._logImmediately(level, [message]) called from outside.
LogImmediatelyCall(l, level, size) ==
    _logImmediately(l, level, size, "_logImmediately")

\* ---------------------------------------------------------- the tree
\* extend(options): Object.assign(this.options, options) writes into the
\* shared options object, and the constructor assigns it onto itself.
extend(l, level) ==
    /\ Len(parent) < MaxLoggers
    /\ options' = IF level = "none" THEN options
                  ELSE [options EXCEPT !.logLevel = level]
    /\ parent' = Append(parent, l)
    /\ logBuffer' = Append(logBuffer, EmptyBuffer)
    /\ requests' = Append(requests, 0)
    /\ logLevelGiven' = Append(logLevelGiven,
                                IF level = "none" THEN logLevelGiven[l]
                                ELSE level)
    /\ last' = Outcome("extend", l, level, TRUE, FALSE, 0, 0, 0)
    /\ UNCHANGED <<writeAttempts, writePending, lastWrittenAt, now, timers,
                   logBufferInterval, inflight, chain, nextId, errorHooks>>

FreshTimer == CHOOSE h \in 1..MaxTimers : h \notin timers

\* `if (this.parent)` of lines 52 and 67.
HasNoParentEver(l) == FALSE
HasParent(l) == parent[l] # NoParent

\* attach().  Under Node handleProcess is true and handleWindow is false:
\* process.on adds one more listener on every call (line 60).
attach(l) ==
    IF HasParent(l)
    THEN /\ last' = Outcome("attach", l, "none", FALSE, TRUE, 0, 0, 0)
         /\ Untouched
    ELSE /\ Cardinality(timers) < MaxTimers
         /\ timers' = timers \cup {FreshTimer}
         /\ logBufferInterval' = FreshTimer
         /\ errorHooks' = errorHooks + 1
         /\ last' = Outcome("attach", l, "none", TRUE, FALSE, 0, 0, 0)
         /\ UNCHANGED <<options, parent, logBuffer, requests, writeAttempts,
                        writePending, lastWrittenAt, now, inflight, chain,
                        nextId, logLevelGiven>>

\* detach().  process.removeListener takes one listener away, if there is
\* one (line 75); only the interval attach() stored last is cleared.
detach(l) ==
    IF HasParent(l)
    THEN /\ last' = Outcome("detach", l, "none", FALSE, TRUE, 0, 0, 0)
         /\ Untouched
    ELSE /\ timers' = IF logBufferInterval # NoTimer
                      THEN timers \ {logBufferInterval} ELSE timers
         /\ logBufferInterval' = NoTimer
         /\ errorHooks' = IF errorHooks > 0 THEN errorHooks - 1 ELSE 0
         /\ last' = Outcome("detach", l, "none", TRUE, FALSE, 0, 0, 0)
         /\ UNCHANGED <<options, parent, logBuffer, requests, writeAttempts,
                        writePending, lastWrittenAt, now, inflight, chain,
                        nextId, logLevelGiven>>

\* ------------------------------------------------------- the scheduler
\* What line 190 reads: this._bufferLogs is the method of lines 147-149, a
\* function of one parameter (length 1), not the array this._logBuffer.
BufferLogsMethod == [kind |-> "function", length |-> 1, items |-> <<>>]

\* The loop of lines 192-200 on a value that has slice (an array): payload
\* starts as '' (length 0); after one pass it is the object _package returns,
\* whose length is undefined, and `undefined < bufferMaxPayload` is false.
NextWriteLoop(logs) ==
    IF 0 < options.bufferMaxPayload.n /\ 0 < logs.length
    THEN [threw |-> FALSE, truthy |-> TRUE,
          payload |-> _package(SubSeq(logs.items, 1, 0)),
          remainingLogs |-> SubSeq(logs.items, 2, Len(logs.items))]
    ELSE [threw |-> FALSE, truthy |-> FALSE,
          payload |-> _package(<<>>),
          remainingLogs |-> logs.items]

\* _nextWrite: logs.slice is called at line 195 or at line 199 on every path,
\* and a function has no slice: TypeError.
_nextWrite ==
    LET logs == BufferLogsMethod
    IN  IF logs.kind = "array"
        THEN NextWriteLoop(logs)
        ELSE [threw |-> TRUE, truthy |-> FALSE, payload |-> _package(<<>>),
              remainingLogs |-> <<>>]

\* _sendPayload, lines 204-207: count the attempt, mark the write pending,
\* hand the payload to _makeRequest.
StartSend(payload, scheduled, remainingLogs, op) ==
    /\ writeAttempts' = writeAttempts + 1
    /\ writePending' = TRUE
    /\ inflight' = [active |-> TRUE, payload |-> payload]
    /\ chain' = [state |-> "inflight", tries |-> 1, sent |-> <<payload>>,
                 responses |-> <<>>, scheduled |-> scheduled,
                 remainingLogs |-> remainingLogs,
                 bound |-> options.bufferMaxPayload]
    /\ last' = Outcome(op, Root, "none", TRUE, FALSE, 0, 0,
                       HeadId(logBuffer[Root]))
    /\ UNCHANGED <<options, parent, logBuffer, requests, lastWrittenAt, now,
                   timers, logBufferInterval, nextId,
                   logLevelGiven, errorHooks>>

WriteGuardIgnoresInterval == writePending

WriteGuardIgnoresPending ==
    lastWrittenAt.set /\ lastWrittenAt.at + bufferWriteInterval > now

\* line 163
WriteGuard ==
    \/ writePending
    \/ lastWrittenAt.set /\ lastWrittenAt.at + bufferWriteInterval > now

\* root._scheduleLogWrite() called on the root logger.
_scheduleLogWrite ==
    IF WriteGuard
    THEN /\ last' = Outcome("_scheduleLogWrite", Root, "none", FALSE, FALSE,
                            0, 0, HeadId(logBuffer[Root]))
         /\ Untouched
    ELSE IF _nextWrite.threw
    THEN /\ last' = Outcome("_scheduleLogWrite", Root, "none", TRUE, TRUE,
                            0, 0, HeadId(logBuffer[Root]))
         /\ Untouched
    ELSE IF ~_nextWrite.truthy
    THEN /\ last' = Outcome("_scheduleLogWrite", Root, "none", TRUE, FALSE,
                            0, 0, HeadId(logBuffer[Root]))
         /\ Untouched
    ELSE StartSend(_nextWrite.payload, TRUE, _nextWrite.remainingLogs,
                   "_scheduleLogWrite")

\* The interval of line 62 fires: setInterval was given the bare method, so
\* `this` is the timer (or window), whose `options` is undefined; line 163
\* throws a TypeError reading this.options.bufferWriteInterval.
Tick(h) ==
    /\ h \in timers
    /\ last' = Outcome("tick", Root, "none", FALSE, TRUE, 0, 0,
                       HeadId(logBuffer[Root]))
    /\ Untouched

\* root._nextWrite() called from outside.
NextWriteCall ==
    /\ last' = Outcome("_nextWrite", Root, "none", TRUE, _nextWrite.threw,
                       0, 0, HeadId(logBuffer[Root]))
    /\ Untouched

\* ------------------------------------------------ transport and retries
\* What superagent may hand to the callback of line 235 as (error, status):
\* no response at all (a network failure or the timeout, status 0), a status
\* of 400 or more given as an error (superagent from 1.0 on) or as a plain
\* response (before), or a success.
Statuses == {200, 404, 413, 503}
CallbackInputs ==
    {<<TRUE, s>> : s \in {0, 404, 413, 503}}
        \cup {<<FALSE, s>> : s \in Statuses}

\* _makeRequest, the callback of lines 235-264: how the promise is settled.
\* Line 236 rejects with superagent's error as it is: no origin, no recovery.
\* Lines 246 and 258-259 assign to `error`, which is null there: a TypeError
\* inside the callback, so neither resolve nor reject is ever called.
_makeRequest(error, status) ==
    IF error
    THEN [settle |-> "reject", origin |-> "undefined",
          recovery |-> "undefined"]
    ELSE IF status >= 500
    THEN [settle |-> "throw", origin |-> "undefined",
          recovery |-> "undefined"]
    ELSE IF status >= 400
    THEN [settle |-> "throw", origin |-> "undefined",
          recovery |-> "undefined"]
    ELSE [settle |-> "resolve", origin |-> "undefined",
          recovery |-> "undefined"]

CeilingReachedOffByOne == writeAttempts > options.bufferMaxWriteRetries

\* line 217
CeilingReached == writeAttempts >= options.bufferMaxWriteRetries

\* _scheduleLogWrite, lines 172-186: what the buffer becomes once the promise
\* of _sendPayload has settled.
WriteDone(rejected, origin) ==
    IF ~chain.scheduled THEN logBuffer
    ELSE IF ~rejected
    THEN [logBuffer EXCEPT ![Root] = chain.remainingLogs]
    ELSE IF origin = "server"
    THEN [logBuffer EXCEPT ![Root] = chain.remainingLogs]
    ELSE logBuffer

\* _sendPayload, line 208-211 and 223-225: the request succeeded.
SendResolved(status) ==
    /\ writeAttempts' = 0
    /\ lastWrittenAt' = [set |-> TRUE, at |-> now]
    /\ writePending' = FALSE
    /\ inflight' = NoRequest
    /\ chain' = [chain EXCEPT !.state = "fulfilled",
                              !.responses = Append(@, status)]
    /\ logBuffer' = WriteDone(FALSE, "undefined")
    /\ UNCHANGED <<options, parent, requests, now, timers, logBufferInterval,
                   last, nextId,
                   logLevelGiven, errorHooks>>

\* _sendPayload, lines 212-225: the request failed with `reason`.
SendRejected(status, reason) ==
    /\ options' = IF reason.recovery = "reduce-payload"
                  THEN [options EXCEPT !.bufferMaxPayload = ReducePayload(@)]
                  ELSE options
    /\ IF CeilingReached
       THEN \* line 218: `return error` fulfils the promise
            /\ writePending' = FALSE
            /\ inflight' = NoRequest
            /\ chain' = [chain EXCEPT !.state = "fulfilledWithError",
                                      !.responses = Append(@, status)]
            /\ logBuffer' = WriteDone(FALSE, reason.origin)
            /\ UNCHANGED writeAttempts
       ELSE \* line 221: the same payload again
            /\ writeAttempts' = writeAttempts + 1
            /\ writePending' = TRUE
            /\ inflight' = [active |-> TRUE, payload |-> inflight.payload]
            /\ chain' = [chain EXCEPT !.tries = @ + 1,
                                      !.sent = Append(@, inflight.payload),
                                      !.responses = Append(@, status)]
            /\ UNCHANGED logBuffer
    /\ UNCHANGED <<parent, requests, lastWrittenAt, now, timers,
                   logBufferInterval, last, nextId,
                   logLevelGiven, errorHooks>>

\* The callback threw: the promise of _makeRequest stays pending for ever,
\* and with it _writePending stays true.
SendHung(status) ==
    /\ inflight' = NoRequest
    /\ chain' = [chain EXCEPT !.state = "hung",
                              !.responses = Append(@, status)]
    /\ UNCHANGED <<options, parent, logBuffer, requests, writeAttempts,
                   writePending, lastWrittenAt, now, timers,
                   logBufferInterval, last, nextId,
                   logLevelGiven, errorHooks>>

\* superagent calls back for the request in flight.
Respond(error, status) ==
    /\ inflight.active
    /\ LET res == _makeRequest(error, status)
       IN  CASE res.settle = "resolve" -> SendResolved(status)
             [] res.settle = "reject" -> SendRejected(status, res)
             [] OTHER -> SendHung(status)

\* root._sendPayload(payload) called from outside with the package of the
\* first k buffered records, one call at a time (what line 163 ensures for
\* the calls of _scheduleLogWrite).
SendPayloadCall(k) ==
    /\ ~writePending
    /\ writeAttempts < MaxAttempts
    /\ k \in 1..Len(logBuffer[Root])
    /\ StartSend(_package(SubSeq(logBuffer[Root], 1, k)), FALSE, <<>>,
                 "_sendPayload")

\* root._scheduleLogWrite() called from outside.
ScheduleLogWriteCall == _scheduleLogWrite

\* ------------------------------------------------------ specifications
\* The logging API and the logger tree.
Next ==
    \/ \E l \in Loggers, level \in LevelNames : Level(l, level, DirectSize)
    \/ \E l \in Loggers, level \in LevelNames :
           LevelImmediately(l, level, DirectSize)
    \/ \E l \in Loggers : LogEventuallyCall(l, DirectLevel, DirectSize)
    \/ \E l \in Loggers : LogImmediatelyCall(l, DirectLevel, DirectSize)
    \/ \E l \in Loggers, level \in LevelNames \cup {"none"} : extend(l, level)

Spec == Init /\ [][Next]_vars

\* Buffering and delivery on the root logger.
NextDelivery ==
    \/ AdvanceTime
    \/ \E size \in RecordSizes : LogEventuallyCall(Root, DirectLevel, size)
    \/ \E level \in LevelNames : LevelImmediately(Root, level, DirectSize)
    \/ NextWriteCall
    \/ ScheduleLogWriteCall
    \/ \E k \in 1..MaxLogs : SendPayloadCall(k)
    \/ \E in \in CallbackInputs : Respond(in[1], in[2])

SpecDelivery == InitDelivery /\ [][NextDelivery]_vars

\* The same, with superagent calling back for every request it was given
\* (a response, an error or the timeout of line 234).
SpecDeliveryFair ==
    SpecDelivery /\ WF_vars(\E in \in CallbackInputs : Respond(in[1], in[2]))

\* attach(), detach() and the interval on a tree of loggers.
NextTimer ==
    \/ AdvanceTime
    \/ \E l \in Loggers : extend(l, "none")
    \/ \E l \in Loggers : attach(l)
    \/ \E l \in Loggers : detach(l)
    \/ \E h \in 1..MaxTimers : Tick(h)
    \/ LogEventuallyCall(Root, DirectLevel, DirectSize)
    \/ ScheduleLogWriteCall

SpecTimer == InitDelivery /\ [][NextTimer]_vars

\* _nextWrite and _scheduleLogWrite on the buffers of BuiltBuffers.
NextBuilder ==
    \/ AdvanceTime
    \/ NextWriteCall
    \/ ScheduleLogWriteCall

SpecBuilder == InitBuilder /\ [][NextBuilder]_vars

\* ---------------------------------------------------------------- claims
Ended == chain.state \in {"fulfilled", "fulfilledWithError", "rejected"}
BufferedIds == {logBuffer[Root][i].id : i \in 1..Len(logBuffer[Root])}
PayloadIds(payload) == {payload.traces[i].id : i \in 1..Len(payload.traces)}
LastResponse == chain.responses[Len(chain.responses)]

RECURSIVE ReduceTimes(_, _)
ReduceTimes(b, n) == IF n = 0 THEN b ELSE ReduceTimes(ReducePayload(b), n - 1)
TooLargeAnswers ==
    Cardinality({i \in 1..Len(chain.responses) : chain.responses[i] = 413})

\* C1: for every non-empty buffer and every bound B, _nextWrite returns a
\* payload, and its serialized length is at most B unless the first buffered
\* record alone serializes to more than B.
C1_NextWritePayloadFits ==
    (last.op = "_nextWrite" /\ logBuffer[Root] # <<>>) =>
        /\ ~last.threw
        /\ \/ FitsBound(SerializedLength(_nextWrite.payload),
                        options.bufferMaxPayload)
           \/ ~FitsBound(SerializedLength(_package(<<Head(logBuffer[Root])>>)),
                         options.bufferMaxPayload)

\* C2: the Transport attempts made for one payload never number more than
\* bufferMaxWriteRetries, whatever the failures: past the ceiling no further
\* attempt is made for it.
C2_AttemptsWithinCeiling == chain.tries <= options.bufferMaxWriteRetries

\* C2 witness: with the default ceiling of 3, a payload was tried 3 times,
\* every attempt failed, and the call is over.
C2_Witness ==
    /\ options.bufferMaxWriteRetries = bufferMaxWriteRetries
    /\ chain.tries = bufferMaxWriteRetries
    /\ chain.state = "fulfilledWithError"
    /\ Len(chain.responses) = bufferMaxWriteRetries

\* C3: a scheduled write started on a non-empty buffer whose attempts meet
\* nothing but server-origin failures is over only once the buffer has been
\* replaced by the remainder: no record of the flushed prefix (which starts
\* with the leading record) is left in it.
C3_ServerFailurePurgesPrefix ==
    (/\ last.op = "_scheduleLogWrite"
     /\ last.accepted
     /\ last.head # 0
     /\ ~writePending) => last.head \notin BufferedIds

\* C4: a write that ends after a client-origin answer (a 4xx) ends as a
\* rejection, the failure surfaced as an error, with every record of the
\* failed payload still in the buffer.
C4_ClientFailureSurfaced ==
    (Ended /\ LastResponse \in {404, 413}) =>
        /\ chain.state = "rejected"
        /\ PayloadIds(chain.sent[1]) \subseteq BufferedIds

\* C5: every 413 answer has set options.bufferMaxPayload to 80% of what it was
\* before, by the time the next attempt is made or the write is over.
C5_TooLargeShrinksBound ==
    options.bufferMaxPayload = ReduceTimes(chain.bound, TooLargeAnswers)

\* C6: the payload a 413 answer rejected is never handed to Transport again:
\* every later attempt of the write sends a different, rebuilt payload.
C6_RejectedPayloadNotResent ==
    \A i \in 1..Len(chain.responses), j \in 1..Len(chain.sent) :
        (chain.responses[i] = 413 /\ j > i) => chain.sent[j] # chain.sent[i]

\* C7: a 4xx answer other than 413 is never retried: the payload has had
\* exactly one attempt and the write is over at once, as a rejection.
C7_ClientFailureNotRetried ==
    \A i \in 1..Len(chain.responses) :
        chain.responses[i] = 404 =>
            /\ i = 1
            /\ chain.tries = 1
            /\ chain.state = "rejected"

\* C9: an accepted <level>Immediately call makes one Transport call at once,
\* whether a scheduled write is pending or not, and a call below the logLevel
\* threshold makes none.
C9_ImmediateReachesTransport ==
    last.op = "levelImmediately" =>
        IF last.accepted
        THEN ~last.threw /\ last.calls = 1
        ELSE last.calls = 0

\* C10: every accepted <level> call on any logger of the tree appends its
\* record to the root's buffer, every accepted <level>Immediately call makes
\* its request at the root and buffers nothing, and no descendant ever holds
\* a record or has made a request.
C10_OnlyRootBuffersAndSends ==
    /\ \A l \in Loggers \ {Root} : logBuffer[l] = <<>> /\ requests[l] = 0
    /\ (last.op = "level" /\ last.accepted) =>
           last.appended = 1 /\ last.calls = 0
    /\ (last.op = "levelImmediately" /\ last.accepted) =>
           last.appended = 0 /\ last.calls = 1

\* C11: a <level> call at or above the logLevel threshold returns with its
\* record appended at the end of the buffer, and a call below the threshold
\* appends nothing.
C11_BufferHoldsAcceptedCalls ==
    last.op = "level" =>
        /\ ~last.threw
        /\ last.appended = (IF last.accepted THEN 1 ELSE 0)

\* C12: a log call on a logger is accepted exactly when its level is at or
\* above the logLevel that logger itself was made with, whatever logLevel any
\* other logger of the tree was given.
C12_FilteredByOwnLogLevel ==
    last.op \in {"level", "levelImmediately"} =>
        (last.accepted <=>
            IndexOf(logLevels, last.level)
                >= IndexOf(logLevels, logLevelGiven[last.logger]))

\* C13: the interval calls _scheduleLogWrite only while the root is attached:
\* once detach() has returned, no tick runs until attach() is called again,
\* however many times attach() was called before.
C13_NoTickAfterDetach ==
    last.op = "tick" => logBufferInterval # NoTimer

\* C14: attach() and detach() called on a logger that has a parent throw, and
\* leave the running intervals, the stored interval and the error listeners
\* as they were.
C14_ChildAttachDetachThrows ==
    [][(/\ last' # last
        /\ last'.op \in {"attach", "detach"}
        /\ parent[last'.logger] # NoParent)
           => /\ last'.threw
              /\ UNCHANGED <<timers, logBufferInterval, errorHooks>>]_vars

\* C14 witness: detach() was called on a child and threw while the root was
\* attached, its interval running and its error listener in place.
C14_Witness ==
    /\ last.op = "detach"
    /\ parent[last.logger] # NoParent
    /\ last.threw
    /\ logBufferInterval \in timers
    /\ errorHooks > 0

OversizedAlone(rec) ==
    ~FitsBound(SerializedLength(_package(<<rec>>)), options.bufferMaxPayload)

\* C15: on a buffer [A, B, C] of three records of 5000 bytes and a bound of
\* 12000 bytes, _nextWrite returns the payload of [A, B] and the remainder
\* [C].
C15_FirstWriteTakesTwo ==
    (/\ last.op = "_nextWrite"
     /\ Len(logBuffer[Root]) = 3
     /\ \A i \in 1..3 : logBuffer[Root][i].size = 5000
     /\ options.bufferMaxPayload = [n |-> 12000, d |-> 1]) =>
        /\ ~last.threw
        /\ _nextWrite.payload.traces = SubSeq(logBuffer[Root], 1, 2)
        /\ _nextWrite.remainingLogs = SubSeq(logBuffer[Root], 3, 3)

\* C16: once a scheduled write has been through the guard of line 163 on a
\* buffer whose leading record alone serializes to more than the bound, that
\* record is in the buffer no longer.
C16_OversizedLeadingRecordDropped ==
    (last.op = "_scheduleLogWrite" /\ last.accepted) =>
        \A i \in 1..Len(logBuffer[Root]) :
            logBuffer[Root][i].id = last.head
                => ~OversizedAlone(logBuffer[Root][i])

\* C19: the records of _nextWrite's payload followed by its remainder are the
\* buffer it was called on, in the same order, less a leading record that is
\* oversized on its own: no record is in neither part or in both.
C19_PayloadAndRemainderPartition ==
    last.op = "_nextWrite" =>
        /\ ~last.threw
        /\ LET parts == _nextWrite.payload.traces \o _nextWrite.remainingLogs
               buf == logBuffer[Root]
           IN  \/ parts = buf
               \/ buf # <<>> /\ OversizedAlone(Head(buf)) /\ parts = Tail(buf)

\* C18: _writePending is true for as long as a request of a write is out,
\* from the first attempt through every retry, and a _scheduleLogWrite call
\* made while it is true goes no further than the guard of line 163: it
\* builds no payload and starts no request.
C18_OneWriteInFlight ==
    /\ inflight.active => writePending
    /\ chain.state = "inflight" => writePending
    /\ (last.op = "_scheduleLogWrite" /\ last.accepted) => ~writePending

\* C18 witness: a write is at its second attempt or later, still pending, and
\* the _scheduleLogWrite call made meanwhile was turned away.
C18_Witness ==
    /\ chain.state = "inflight"
    /\ chain.tries >= 2
    /\ inflight.active
    /\ writePending
    /\ last.op = "_scheduleLogWrite"
    /\ ~last.accepted

\* C20: the first attempt of every payload is made with the attempt counter
\* at 1, whatever the outcome of the writes before it.
C20_AttemptCounterStartsAtOne ==
    (chain.state = "inflight" /\ chain.tries = 1) => writeAttempts = 1

WithinWriteInterval ==
    lastWrittenAt.set /\ now - lastWrittenAt.at < bufferWriteInterval

\* C21: a _scheduleLogWrite call made less than bufferWriteInterval after
\* _lastWrittenAt goes no further than the guard of line 163: it starts no
\* write and leaves the buffer and the write state as they were.
C21_NoWriteWithinInterval ==
    [][(/\ last' # last
        /\ last'.op = "_scheduleLogWrite"
        /\ WithinWriteInterval)
           => /\ ~last'.accepted
              /\ ~last'.threw
              /\ UNCHANGED <<logBuffer, requests, writeAttempts, writePending,
                             lastWrittenAt, inflight, chain, options>>]_vars

\* C21 witness: a write has succeeded, none is pending, records are waiting,
\* and the _scheduleLogWrite call made within the interval was turned away.
C21_Witness ==
    /\ last.op = "_scheduleLogWrite"
    /\ ~last.accepted
    /\ ~writePending
    /\ WithinWriteInterval
    /\ chain.state = "fulfilled"
    /\ logBuffer[Root] # <<>>

\* C22: with every request answered, a write that has set _writePending
\* is over in the end and _writePending is false again, whatever the answers.
C22_WriteReturnsToIdle == writePending ~> ~writePending

RECURSIVE HalvingPrefix(_, _)
\* The first of k, k \div 2, k \div 4, ... whose prefix of buf packages to a
\* length within the bound; 0 when none does.
HalvingPrefix(buf, k) ==
    IF k = 0 THEN 0
    ELSE IF FitsBound(SerializedLength(_package(SubSeq(buf, 1, k))),
                      options.bufferMaxPayload)
    THEN k
    ELSE HalvingPrefix(buf, k \div 2)

\* C23: on a buffer of n records whose leading record fits the bound on its
\* own, _nextWrite returns the payload of the first k records, k the first of
\* n, n \div 2, n \div 4, ... whose payload fits, and the rest as remainder.
C23_HalvingBoundary ==
    (/\ last.op = "_nextWrite"
     /\ logBuffer[Root] # <<>>
     /\ ~OversizedAlone(Head(logBuffer[Root]))) =>
        /\ ~last.threw
        /\ Len(_nextWrite.payload.traces)
               = HalvingPrefix(logBuffer[Root], Len(logBuffer[Root]))
        /\ Len(_nextWrite.remainingLogs)
               = Len(logBuffer[Root])
                    - HalvingPrefix(logBuffer[Root], Len(logBuffer[Root]))
====
